---------------------------- MODULE Spec2Model ----------------------------
(***************************************************************************)
(* Search Console keyword dashboard (src/dashboard.py).                    *)
(*                                                                         *)
(* Text (file names, column headers) is a sequence of one-character        *)
(* strings.  A DataFrame is a record [cols, kind, rows]: the column        *)
(* labels in order (duplicates allowed, as in pandas), the dtype class of  *)
(* each column ("num" or "text") and the rows, each a tuple of integer     *)
(* cells aligned with cols.  Text cells hold keyword identifiers.          *)
(* Positions are held in tenths (PosScale), CTR values in 1/10000          *)
(* (CtrOne), dates as yyyymmdd.                                            *)
(***************************************************************************)
EXTENDS Integers, Sequences, FiniteSets, TLC

VARIABLES
    file_path,      \* SpecDate: the file name handed to extract_date_from_filename
    file_mtime,     \* SpecDate: the file's modification date, NoDate when not on disk
    parsed,         \* SpecDate: what extract_date_from_filename returned
    uploaded_file,  \* SpecFile: the raw dataset of the file shown in the single-file view
    result,         \* SpecFile: what process_search_console_file returned for it
    disk,           \* Spec: the spreadsheet files of the working directory
    pc,             \* position of the script run
    historical,     \* Spec: what load_all_historical_data returned
    insights,       \* Spec: what get_historical_insights returned
    comparison,     \* Spec: the table of the Keyword Comparison tab
    opportunities   \* SpecFile: what get_keyword_opportunities returned

vars == <<file_path, file_mtime, parsed, uploaded_file, result,
          disk, pc, historical, insights, comparison, opportunities>>

(***************************************************************************)
(* Bounds of the model.                                                    *)
(***************************************************************************)
MaxRows == 2
MaxCols == 3
MaxSegs == 3
MaxFiles == 2

(***************************************************************************)
(* Units and special values.                                               *)
(***************************************************************************)
PosScale == 10
CtrOne == 10000
NaN == -999999999
Inf == 999999999
NoDate == 0
NoCol == <<>>

(***************************************************************************)
(* Text.                                                                   *)
(***************************************************************************)
Ascii == <<" ", "-", ".", "0", "1", "2", "3", "4", "5", "6", "7", "8", "9",
           "A", "B", "C", "D", "E", "F", "G", "H", "I", "J", "K", "L", "M",
           "N", "O", "P", "Q", "R", "S", "T", "U", "V", "W", "X", "Y", "Z",
           "_",
           "a", "b", "c", "d", "e", "f", "g", "h", "i", "j", "k", "l", "m",
           "n", "o", "p", "q", "r", "s", "t", "u", "v", "w", "x", "y", "z">>

Ord(c) == CHOOSE i \in 1..Len(Ascii) : Ascii[i] = c

Upper == <<"A", "B", "C", "D", "E", "F", "G", "H", "I", "J", "K", "L", "M",
           "N", "O", "P", "Q", "R", "S", "T", "U", "V", "W", "X", "Y", "Z">>

LowerOf == <<"a", "b", "c", "d", "e", "f", "g", "h", "i", "j", "k", "l", "m",
             "n", "o", "p", "q", "r", "s", "t", "u", "v", "w", "x", "y", "z">>

LowerChar(c) ==
    IF \E i \in 1..Len(Upper) : Upper[i] = c
    THEN LowerOf[CHOOSE i \in 1..Len(Upper) : Upper[i] = c]
    ELSE c

\* str.lower()
Lower(s) == [i \in 1..Len(s) |-> LowerChar(s[i])]

\* str.strip()
Strip(s) ==
    LET keep == {i \in 1..Len(s) : s[i] # " "}
    IN  IF keep = {} THEN <<>>
        ELSE LET a == CHOOSE i \in keep : \A j \in keep : i <= j
                 b == CHOOSE i \in keep : \A j \in keep : i >= j
             IN  SubSeq(s, a, b)

\* needle in hay
Contains(hay, needle) ==
    \E i \in 1..(Len(hay) - Len(needle) + 1) :
        SubSeq(hay, i, i + Len(needle) - 1) = needle

\* a < b for Python strings
RECURSIVE StrLess(_, _)
StrLess(a, b) ==
    IF a = <<>> THEN b # <<>>
    ELSE IF b = <<>> THEN FALSE
    ELSE IF Ord(a[1]) # Ord(b[1]) THEN Ord(a[1]) < Ord(b[1])
    ELSE StrLess(Tail(a), Tail(b))

\* the labels of the snapshot (lines 117-125 and 135)
c_Keyword == <<"K","e","y","w","o","r","d">>
c_AvgPosition == <<"A","v","g"," ","P","o","s","i","t","i","o","n">>
c_Impressions == <<"I","m","p","r","e","s","s","i","o","n","s">>
c_Clicks == <<"C","l","i","c","k","s">>
c_CTR == <<"C","T","R">>
c_Date == <<"D","a","t","e">>

(***************************************************************************)
(* Column headers of the raw datasets.  Each header names the field of a   *)
(* row profile that fills it (slot) and the dtype pandas gives the column. *)
(***************************************************************************)

Hdr(n, s, k) == [name |-> n, slot |-> s, kind |-> k]

H_TopQueries == Hdr(<<"T","o","p"," ","q","u","e","r","i","e","s">>, "kw", "text")
H_Query == Hdr(<<"Q","u","e","r","y">>, "kw", "text")
H_QUERY == Hdr(<<"Q","U","E","R","Y">>, "kw", "text")
H_POSITION == Hdr(<<" ","P","O","S","I","T","I","O","N"," ">>, "pos", "num")
H_Position == Hdr(<<"P","o","s","i","t","i","o","n">>, "pos", "num")
H_AvgDotPosition == Hdr(<<"A","v","g","."," ","P","o","s","i","t","i","o","n">>, "pos", "num")
H_Impressions == Hdr(<<"I","m","p","r","e","s","s","i","o","n","s">>, "imp", "num")
H_Clicks == Hdr(<<"C","l","i","c","k","s">>, "clk", "num")
H_CTR == Hdr(<<"C","T","R">>, "ctr", "num")
H_ClickThroughRate == Hdr(<<"C","l","i","c","k","-","t","h","r","o","u","g","h"," ","r","a","t","e">>, "ctrpct", "num")
H_Sessions == Hdr(<<"S","e","s","s","i","o","n","s">>, "oth", "num")
H_Page == Hdr(<<"P","a","g","e">>, "kw", "text")
H_CtrQuery == Hdr(<<"C","l","i","c","k","-","t","h","r","o","u","g","h"," ","r","a","t","e"," ","q","u","e","r","y">>, "kw", "text")

Headers == {H_TopQueries, H_Query, H_QUERY, H_POSITION, H_Position,
            H_AvgDotPosition, H_Impressions, H_Clicks, H_CTR,
            H_ClickThroughRate, H_Sessions, H_Page, H_CtrQuery}

Fields == {"position", "impressions", "clicks", "ctr", "keyword"}

Range(s) == {s[i] : i \in 1..Len(s)}

SetMax(S) == CHOOSE x \in S : \A y \in S : y <= x
SetMin(S) == CHOOSE x \in S : \A y \in S : x <= y

(***************************************************************************)
(* Numbers as pandas treats them.                                          *)
(***************************************************************************)
\* Series.between(lo, hi): inclusive on both ends, False on a missing value
between(x, lo, hi) == x # NaN /\ lo <= x /\ x <= hi

\* a - b on two cells
Sub(a, b) == IF a = NaN \/ b = NaN THEN NaN ELSE a - b

\* Series.fillna(other)
fillna(a, b) == IF a = NaN THEN b ELSE a

\* round to the nearest integer, ties to even (numpy round)
RoundHalfEven(n, d) ==
    LET q == n \div d
        r == n % d
    IN  IF 2 * r < d THEN q
        ELSE IF 2 * r > d THEN q + 1
        ELSE IF q % 2 = 0 THEN q ELSE q + 1

\* (clicks / impressions * 100).round(2), in units of 1/CtrOne
derive_ctr(clicks, impressions) ==
    IF clicks = NaN \/ impressions = NaN THEN NaN
    ELSE IF impressions = 0 THEN (IF clicks = 0 THEN NaN ELSE Inf)
    ELSE RoundHalfEven(clicks * 100 * 100, impressions) * (CtrOne \div 100)

\* cell * 100
Times100(x) == IF x = NaN \/ x = Inf THEN x ELSE x * 100

(***************************************************************************)
(* DataFrames.                                                             *)
(***************************************************************************)
EmptyFrame == [cols |-> <<>>, kind |-> <<>>, rows |-> <<>>]

\* the positions of the columns labelled c
ColIdxs(df, c) == {i \in 1..Len(df.cols) : df.cols[i] = c}

\* c in df.columns
HasCol(df, c) == ColIdxs(df, c) # {}

\* the position of the first column labelled c
ColIndex(df, c) == SetMin(ColIdxs(df, c))

\* df[c] on one row, NaN when the frame has no such column
Cell(df, row, c) == IF HasCol(df, c) THEN row[ColIndex(df, c)] ELSE NaN

\* df[c].dtype
KindOf(df, c) == df.kind[ColIndex(df, c)]

\* df[c] = values (one value per row): overwrite the column, or append it
SetColumn(df, c, values, k) ==
    IF HasCol(df, c)
    THEN [cols |-> df.cols,
          kind |-> [i \in 1..Len(df.cols) |-> IF df.cols[i] = c THEN k ELSE df.kind[i]],
          rows |-> [j \in 1..Len(df.rows) |->
                      [i \in 1..Len(df.cols) |->
                          IF df.cols[i] = c THEN values[j] ELSE df.rows[j][i]]]]
    ELSE [cols |-> Append(df.cols, c),
          kind |-> Append(df.kind, k),
          rows |-> [j \in 1..Len(df.rows) |-> Append(df.rows[j], values[j])]]

\* df[labels]: the listed columns in the listed order, repeated when listed twice
SelectCols(df, labels) ==
    [cols |-> labels,
     kind |-> [k \in 1..Len(labels) |-> KindOf(df, labels[k])],
     rows |-> [j \in 1..Len(df.rows) |->
                 [k \in 1..Len(labels) |-> df.rows[j][ColIndex(df, labels[k])]]]]

(***************************************************************************)
(* process_search_console_file: column inference.                          *)
(***************************************************************************)
col_lower(col) == Strip(Lower(col))

\* the test of one field on one header (lines 63-75)
HeaderMatches(col, field) ==
    LET c == col_lower(col)
    IN  CASE field = "position" ->
                 \/ Contains(c, <<"p","o","s","i","t","i","o","n">>)
                 \/ Contains(c, <<"a","v","g","."," ","p","o","s","i","t","i","o","n">>)
                 \/ Contains(c, <<"a","v","g"," ","p","o","s","i","t","i","o","n">>)
          [] field = "impressions" -> Contains(c, <<"i","m","p","r","e","s","s","i","o","n","s">>)
          [] field = "clicks" -> Contains(c, <<"c","l","i","c","k","s">>)
          [] field = "ctr" ->
                 Contains(c, <<"c","t","r">>) \/ Contains(c, <<"c","l","i","c","k","-","t","h","r","o","u","g","h"," ","r","a","t","e">>)
          [] field = "keyword" ->
                 \/ Contains(c, <<"q","u","e","r","y">>) \/ Contains(c, <<"q","u","e","r","i","e","s">>)
                 \/ Contains(c, <<"k","e","y","w","o","r","d">>) \/ Contains(c, <<"k","e","y","w","o","r","d","s">>)
                 \/ Contains(c, <<"s","e","a","r","c","h"," ","q","u","e","r","y">>) \/ Contains(c, <<"t","o","p"," ","q","u","e","r","y">>)
                 \/ Contains(c, <<"t","o","p"," ","q","u","e","r","i","e","s">>)

\* the tests of every header of the catalogue, computed once
MatchTable ==
    {p \in {h.name : h \in Headers} \X Fields : HeaderMatches(p[1], p[2])}

Matches(col, field) ==
    IF col \in {h.name : h \in Headers}
    THEN <<col, field>> \in MatchTable
    ELSE HeaderMatches(col, field)

\* the loop over df.columns stopped at the first matching column
LastMatch_first(cols, field) ==
    LET S == {i \in 1..Len(cols) : Matches(cols[i], field)}
    IN  IF S = {} THEN NoCol ELSE cols[SetMin(S)]

\* the loop over df.columns: the last matching column stays assigned
LastMatch(cols, field) ==
    LET S == {i \in 1..Len(cols) : Matches(cols[i], field)}
    IN  IF S = {} THEN NoCol ELSE cols[SetMax(S)]

find_columns(cols) ==
    [position_col |-> LastMatch(cols, "position"),
     impressions_col |-> LastMatch(cols, "impressions"),
     clicks_col |-> LastMatch(cols, "clicks"),
     ctr_col |-> LastMatch(cols, "ctr"),
     keyword_col |-> LastMatch(cols, "keyword")]

\* lines 77-87 with the keyword test left out
schema_check_position_only(m) ==
    IF m.position_col = NoCol THEN "no_position" ELSE "ok"

\* the two mandatory columns (lines 77-87)
schema_check(m) ==
    IF m.position_col = NoCol THEN "no_position"
    ELSE IF m.keyword_col = NoCol THEN "no_keyword"
    ELSE "ok"

(***************************************************************************)
(* process_search_console_file: the snapshot.                              *)
(* The function returns None on every failure; status keeps which message  *)
(* it reported: "no_position" and "no_keyword" (st.error, lines 78, 86),   *)
(* "empty" (st.warning, line 93), "exception" (the except clause).         *)
(***************************************************************************)
Failed(reason) == [status |-> reason, result_df |-> EmptyFrame]

\* line 90 with the lower bound left out
in_top_10_no_lower_bound(position) == position # NaN /\ position <= 10 * PosScale

\* line 90: the rows with position between 1 and 10
in_top_10(position) == between(position, 1 * PosScale, 10 * PosScale)

\* line 90: df[df[position_col].between(1, 10)]
filter_top_10(df, position_col) ==
    LET KeepRow(row) == in_top_10(row[ColIndex(df, position_col)])
    IN  [df EXCEPT !.rows = SelectSeq(df.rows, KeepRow)]

\* lines 101-112: the columns kept, the mapped ones first
display_cols(df, keyword_col, position_col, impressions_col, clicks_col, ctr_col) ==
    LET mapped == <<keyword_col, position_col, impressions_col>>
                  \o (IF clicks_col # NoCol THEN <<clicks_col>> ELSE <<>>)
                  \o (IF ctr_col # NoCol THEN <<ctr_col>> ELSE <<>>)
        other == {i \in 1..Len(df.cols) :
                     df.cols[i] \notin Range(mapped) /\ df.kind[i] = "num"}
        IsOther(c) == \E i \in other : df.cols[i] = c
    IN  mapped \o SelectSeq(df.cols, IsOther)

\* lines 117-125: the dict literal keeps the last value given for a key
column_mapping(label, keyword_col, position_col, impressions_col, clicks_col, ctr_col) ==
    IF ctr_col # NoCol /\ label = ctr_col THEN c_CTR
    ELSE IF clicks_col # NoCol /\ label = clicks_col THEN c_Clicks
    ELSE IF label = impressions_col THEN c_Impressions
    ELSE IF label = position_col THEN c_AvgPosition
    ELSE IF label = keyword_col THEN c_Keyword
    ELSE label

\* lines 127-131: a CTR column whose maximum is at most 1 is multiplied by 100
rescale_ctr(df) ==
    LET i == ColIndex(df, c_CTR)
        present == {df.rows[j][i] : j \in 1..Len(df.rows)} \ {NaN}
    IN  IF present # {} /\ SetMax(present) <= 1 * CtrOne
        THEN SetColumn(df, c_CTR,
                       [j \in 1..Len(df.rows) |-> Times100(df.rows[j][i])], "num")
        ELSE df

\* lines 133-141 with the Date column never added
stamp_date_never(df, include_date) == df

\* lines 133-135: the Date column, when a date was given
stamp_date(df, include_date) ==
    IF include_date # NoDate
    THEN SetColumn(df, c_Date, [j \in 1..Len(df.rows) |-> include_date], "num")
    ELSE df

\* lines 96-99: the CTR column computed from clicks and impressions
add_ctr(df_filtered, clicks_col, impressions_col) ==
    SetColumn(df_filtered, c_CTR,
              [j \in 1..Len(df_filtered.rows) |->
                  derive_ctr(Cell(df_filtered, df_filtered.rows[j], clicks_col),
                             Cell(df_filtered, df_filtered.rows[j], impressions_col))],
              "num")

\* line 125: result_df.rename(columns=column_mapping)
rename_columns(df, keyword_col, position_col, impressions_col, clicks_col, ctr_col) ==
    [df EXCEPT !.cols =
        [k \in 1..Len(df.cols) |->
            column_mapping(df.cols[k], keyword_col, position_col,
                           impressions_col, clicks_col, ctr_col)]]

\* lines 127-141: the truth value of a comparison over two CTR columns, and
\* the comparison of text with 1, raise
finish_snapshot(result_df, include_date) ==
    IF Cardinality(ColIdxs(result_df, c_CTR)) > 1 THEN Failed("exception")
    ELSE IF HasCol(result_df, c_CTR)
         THEN (IF KindOf(result_df, c_CTR) = "text" THEN Failed("exception")
               ELSE [status |-> "ok",
                     result_df |-> stamp_date(rescale_ctr(result_df), include_date)])
    ELSE [status |-> "ok", result_df |-> stamp_date(result_df, include_date)]

\* lines 101-125: selecting a column that is None raises KeyError
select_and_rename(df, df_filtered, keyword_col, position_col, impressions_col, clicks_col, ctr_col, include_date) ==
    IF impressions_col = NoCol THEN Failed("exception")
    ELSE finish_snapshot(
             rename_columns(
                 SelectCols(df_filtered,
                            display_cols(df, keyword_col, position_col,
                                         impressions_col, clicks_col, ctr_col)),
                 keyword_col, position_col, impressions_col, clicks_col, ctr_col),
             include_date)

\* lines 92-99: arithmetic on a text column raises
after_filter(df, df_filtered, keyword_col, position_col, impressions_col, clicks_col, ctr_col, include_date) ==
    IF df_filtered.rows = <<>> THEN Failed("empty")
    ELSE IF ctr_col = NoCol /\ clicks_col # NoCol /\ impressions_col # NoCol
         THEN (IF KindOf(df, clicks_col) = "text" \/ KindOf(df, impressions_col) = "text"
               THEN Failed("exception")
               ELSE select_and_rename(df, add_ctr(df_filtered, clicks_col, impressions_col),
                                      keyword_col, position_col, impressions_col,
                                      clicks_col, c_CTR, include_date))
    ELSE select_and_rename(df, df_filtered, keyword_col, position_col,
                           impressions_col, clicks_col, ctr_col, include_date)

\* lines 81-90: clicks stand in for a missing impressions column; between on
\* a text column raises
build_snapshot(df, m, include_date) ==
    IF KindOf(df, m.position_col) = "text" THEN Failed("exception")
    ELSE after_filter(df, filter_top_10(df, m.position_col), m.keyword_col, m.position_col,
                      IF m.impressions_col = NoCol THEN m.clicks_col
                      ELSE m.impressions_col,
                      m.clicks_col, m.ctr_col, include_date)

process_search_console_file(df, include_date) ==
    LET m == find_columns(df.cols)
    IN  IF schema_check(m) # "ok" THEN Failed(schema_check(m))
        ELSE build_snapshot(df, m, include_date)

(***************************************************************************)
(* Raw datasets.                                                           *)
(***************************************************************************)
Profile(kw, pos, imp, clk) ==
    [kw |-> kw, pos |-> pos, imp |-> imp, clk |-> clk,
     ctr |-> IF imp = 0 THEN 0 ELSE (clk * CtrOne) \div imp,
     ctrpct |-> IF imp = 0 THEN 0 ELSE (clk * 100 * CtrOne) \div imp,
     oth |-> 7]

\* rows below, at the ends of, inside and above positions 1-10, with a CTR
\* of 10% or of 0.5%
RowPool ==
    { Profile(1, 9, 500, 50), Profile(1, 10, 500, 50), Profile(1, 10, 1000, 5),
      Profile(1, 30, 1000, 5), Profile(2, 30, 500, 50), Profile(2, 50, 1000, 5),
      Profile(2, 100, 500, 50), Profile(2, 100, 1000, 5),
      Profile(1, 101, 500, 50), Profile(2, 101, 1000, 5) }

SeqsUpTo(S, n) == UNION {[1..k -> S] : k \in 0..n}

MkDataset(layout, profiles) ==
    [cols |-> [i \in 1..Len(layout) |-> layout[i].name],
     kind |-> [i \in 1..Len(layout) |-> layout[i].kind],
     rows |-> [j \in 1..Len(profiles) |->
                 [i \in 1..Len(layout) |-> profiles[j][layout[i].slot]]]]

Layouts ==
    { <<H_TopQueries, H_Clicks, H_Impressions, H_CTR, H_Position>>,
      <<H_Query, H_Position, H_Impressions, H_Clicks>>,
      <<H_Query, H_Position, H_Clicks>>,
      <<H_QUERY, H_POSITION, H_Impressions>>,
      <<H_Query, H_Position>>,
      <<H_Query, H_Impressions, H_Clicks>>,
      <<H_Page, H_Position, H_Impressions, H_Clicks>>,
      <<H_TopQueries, H_AvgDotPosition, H_Impressions, H_Clicks,
        H_ClickThroughRate, H_Sessions>>,
      <<H_CtrQuery, H_Position, H_Impressions, H_Clicks>> }

GenHeaders == {H_Query, H_POSITION, H_Position, H_Impressions, H_Clicks,
               H_CTR, H_Sessions, H_CtrQuery}

GenLayouts ==
    {l \in SeqsUpTo(GenHeaders, MaxCols) :
        l # <<>> /\ \A i, j \in 1..Len(l) : i # j => l[i].name # l[j].name}

GenRows == { <<Profile(1, 30, 500, 50)>>,
             <<Profile(1, 101, 500, 50), Profile(2, 10, 1000, 5)>>,
             <<Profile(2, 9, 1000, 5)>> }

\* sheets with a row without impressions, and sheets with rows at, inside
\* and next to positions 4-6
EdgeRows ==
    { <<Profile(1, 30, 0, 5)>>,
      <<Profile(1, 30, 0, 0), Profile(2, 20, 500, 50)>>,
      <<Profile(1, 20, 500, 50), Profile(2, 40, 300, 30), Profile(3, 50, 1000, 5),
        Profile(4, 60, 400, 40), Profile(5, 90, 500, 50)>>,
      <<Profile(1, 39, 500, 50), Profile(2, 61, 1000, 5)>>,
      <<Profile(1, 39, 500, 50), Profile(2, 40, 300, 30), Profile(3, 60, 1000, 5),
        Profile(4, 61, 500, 50)>> }

Datasets ==
    {MkDataset(l, r) : l \in Layouts, r \in SeqsUpTo(RowPool, MaxRows)}
    \cup {MkDataset(l, r) : l \in GenLayouts, r \in GenRows}
    \cup {MkDataset(l, r) : l \in Layouts, r \in EdgeRows}

(***************************************************************************)
(* The single-file view (lines 528-534).                                   *)
(***************************************************************************)
Unset == [status |-> "unset", result_df |-> EmptyFrame]

\* line 178: opportunities = {}
NoOpportunities ==
    [status |-> "unset", entries |-> {},
     high_imp_low_clicks |-> <<>>, quick_wins |-> <<>>, high_ctr |-> <<>>]

InitFile ==
    /\ uploaded_file \in Datasets
    /\ result = Unset
    /\ pc = "start"
    /\ file_path = <<>> /\ file_mtime = NoDate /\ parsed = NoDate
    /\ disk = {} /\ historical = <<>> /\ insights = <<>> /\ comparison = <<>>
    /\ opportunities = NoOpportunities

SingleFileView ==
    /\ pc = "start"
    /\ result' = process_search_console_file(uploaded_file, NoDate)
    /\ pc' = "single"
    /\ UNCHANGED <<file_path, file_mtime, parsed, uploaded_file,
                   disk, historical, insights, comparison, opportunities>>


(***************************************************************************)
(* extract_date_from_filename.                                             *)
(***************************************************************************)
Digits == {"0", "1", "2", "3", "4", "5", "6", "7", "8", "9"}

DigitVal(c) == Ord(c) - Ord("0")

\* the number written by the digits s[i..j]
RECURSIVE Num(_, _, _)
Num(s, i, j) == IF j < i THEN 0 ELSE 10 * Num(s, i, j - 1) + DigitVal(s[j])

AllDigits(s, i, j) == \A k \in i..j : s[k] \in Digits

\* (\d{4})-(\d{2})-(\d{2}) matches at position i
DashMatchAt(s, i) ==
    /\ i + 9 <= Len(s)
    /\ AllDigits(s, i, i + 3) /\ s[i + 4] = "-"
    /\ AllDigits(s, i + 5, i + 6) /\ s[i + 7] = "-"
    /\ AllDigits(s, i + 8, i + 9)

\* (\d{4})(\d{2})(\d{2}) matches at position i
DigitsMatchAt(s, i) == i + 7 <= Len(s) /\ AllDigits(s, i, i + 7)

IsLeap(y) == (y % 4 = 0 /\ y % 100 # 0) \/ y % 400 = 0

DaysIn(y, m) ==
    IF m = 2 THEN (IF IsLeap(y) THEN 29 ELSE 28)
    ELSE IF m \in {4, 6, 9, 11} THEN 30 ELSE 31

\* datetime.strptime succeeds on these fields
ValidDate(y, m, d) == y >= 1 /\ m >= 1 /\ m <= 12 /\ d >= 1 /\ d <= DaysIn(y, m)

DateNum(y, m, d) == y * 10000 + m * 100 + d

\* the fields of the match at position i
DashFields(s, i) == <<Num(s, i, i + 3), Num(s, i + 5, i + 6), Num(s, i + 8, i + 9)>>
DigitsFields(s, i) == <<Num(s, i, i + 3), Num(s, i + 4, i + 5), Num(s, i + 6, i + 7)>>

\* re.search: the leftmost match, 0 when there is none
search_dash(s) ==
    LET M == {i \in 1..Len(s) : DashMatchAt(s, i)}
    IN  IF M = {} THEN 0 ELSE SetMin(M)

search_digits(s) ==
    LET M == {i \in 1..Len(s) : DigitsMatchAt(s, i)}
    IN  IF M = {} THEN 0 ELSE SetMin(M)

\* mtime is the file's modification date, NoDate when os.path.exists is false
extract_date_from_filename(filename, mtime) ==
    LET i == search_dash(filename)
        f == DashFields(filename, i)
        j == search_digits(filename)
        g == DigitsFields(filename, j)
    IN  IF i # 0 /\ ValidDate(f[1], f[2], f[3]) THEN DateNum(f[1], f[2], f[3])
        ELSE IF j # 0 /\ ValidDate(g[1], g[2], g[3]) THEN DateNum(g[1], g[2], g[3])
        ELSE mtime

\* file names: up to MaxSegs pieces, then the extension

Segments ==
    { <<"r","_">>,
      <<"2","0","2","5","-","1","1","-","1","4">>,
      <<"2","0","2","5","-","1","3","-","0","1">>,
      <<"2","0","2","3","-","0","2","-","2","9">>,
      <<"2","0","2","5","1","2","3","1">>,
      <<"2","0","2","5","0","2","3","0">>,
      <<"7">> }

RECURSIVE Concat(_)
Concat(ss) == IF ss = <<>> THEN <<>> ELSE Head(ss) \o Concat(Tail(ss))

FileNames == {Concat(ss) \o <<".","x","l","s","x">> : ss \in SeqsUpTo(Segments, MaxSegs) \ {<<>>}}

MTimes == {NoDate, 20260105}

InitDate ==
    /\ file_path \in FileNames
    /\ file_mtime \in MTimes
    /\ parsed = NoDate
    /\ pc = "start"
    /\ uploaded_file = EmptyFrame /\ result = Unset
    /\ disk = {} /\ historical = <<>> /\ insights = <<>> /\ comparison = <<>>
    /\ opportunities = NoOpportunities

ExtractDate ==
    /\ pc = "start"
    /\ parsed' = extract_date_from_filename(file_path, file_mtime)
    /\ pc' = "parsed"
    /\ UNCHANGED <<file_path, file_mtime, uploaded_file, result,
                   disk, historical, insights, comparison, opportunities>>

NextDate == ExtractDate

SpecDate == InitDate /\ [][NextDate]_vars

(***************************************************************************)
(* load_all_historical_data.                                               *)
(* A file of the directory is [name, mtime, df]: its name, its             *)
(* modification date and the dataset pd.read_excel decodes from it.        *)
(***************************************************************************)
\* sorted(all_files)
RECURSIVE sorted_files(_)
sorted_files(files) ==
    IF files = {} THEN <<>>
    ELSE LET first == CHOOSE f \in files :
                          \A g \in files \ {f} : StrLess(f.name, g.name)
         IN  <<first>> \o sorted_files(files \ {first})

HasDuplicates(labels) ==
    \E i, j \in 1..Len(labels) : i # j /\ labels[i] = labels[j]

\* the columns of the frames, in order of first appearance
RECURSIVE union_columns(_)
union_columns(frames) ==
    IF frames = <<>> THEN EmptyFrame
    ELSE LET rest == union_columns(SubSeq(frames, 1, Len(frames) - 1))
             last == frames[Len(frames)]
             new == {i \in 1..Len(last.cols) : last.cols[i] \notin Range(rest.cols)}
             IsNew(c) == \E i \in new : last.cols[i] = c
             NewKind(k) == LET c == SelectSeq(last.cols, IsNew)[k]
                           IN  KindOf(last, c)
             added == SelectSeq(last.cols, IsNew)
         IN  [cols |-> rest.cols \o added,
              kind |-> rest.kind \o [k \in 1..Len(added) |-> NewKind(k)],
              rows |-> <<>>]

\* pd.concat raises InvalidIndexError when a frame with a repeated label has to
\* be reindexed, that is when the frames do not all have the same columns
concat_raises(frames) ==
    \E i, j \in 1..Len(frames) :
        HasDuplicates(frames[i].cols) /\ frames[j].cols # frames[i].cols

\* the rows of one frame laid out on the columns of the result
reindex_rows(df, labels) ==
    IF df.cols = labels THEN df.rows
    ELSE [j \in 1..Len(df.rows) |->
             [k \in 1..Len(labels) |-> Cell(df, df.rows[j], labels[k])]]

RECURSIVE concat_rows(_, _)
concat_rows(frames, labels) ==
    IF frames = <<>> THEN <<>>
    ELSE reindex_rows(Head(frames), labels) \o concat_rows(Tail(frames), labels)

\* pd.concat(historical_data, ignore_index=True)
concat(frames) ==
    LET u == union_columns(frames)
    IN  [u EXCEPT !.rows = concat_rows(frames, u.cols)]

\* lines 158-165: one entry <<file_path, date, result_df>> per file whose result
\* is not None
loop_entry(f, date) ==
    LET r == process_search_console_file(f.df, date)
    IN  IF r.status = "ok" THEN <<<<f.name, date, r.result_df>>>> ELSE <<>>

RECURSIVE loaded_files(_)
loaded_files(files) ==
    IF files = <<>> THEN <<>>
    ELSE loop_entry(Head(files), extract_date_from_filename(Head(files).name, Head(files).mtime))
         \o loaded_files(Tail(files))

NoHistory == [status |-> "None", combined_df |-> EmptyFrame, file_dates |-> <<>>]

\* lines 167-173
combine(historical_data, file_dates) ==
    IF historical_data = <<>> THEN NoHistory
    ELSE IF concat_raises(historical_data) THEN [NoHistory EXCEPT !.status = "raised"]
    ELSE [status |-> "ok",
          combined_df |-> concat(historical_data),
          file_dates |-> file_dates]

entries_data(entries) == [k \in 1..Len(entries) |-> entries[k][3]]
entries_dates(entries) == [k \in 1..Len(entries) |-> <<entries[k][1], entries[k][2]>>]

load_entries(entries) == combine(entries_data(entries), entries_dates(entries))

load_all_historical_data(files) ==
    IF files = {} THEN NoHistory
    ELSE load_entries(loaded_files(sorted_files(files)))

(***************************************************************************)
(* Sorting and joining.                                                    *)
(***************************************************************************)
\* sorted(list of numbers)
RECURSIVE sorted(_)
sorted(xs) ==
    IF xs = <<>> THEN <<>>
    ELSE LET rest == sorted(Tail(xs))
             x == Head(xs)
             IsLess(y) == y < x
             IsNotLess(y) == ~(y < x)
         IN  SelectSeq(rest, IsLess) \o <<x>> \o SelectSeq(rest, IsNotLess)

\* pairs <<key, item>> by descending key, missing keys last, ties in input order
RECURSIVE sort_descending(_)
sort_descending(pairs) ==
    IF pairs = <<>> THEN <<>>
    ELSE LET rest == sort_descending(Tail(pairs))
             x == Head(pairs)
             Precedes(a, b) == a[1] # NaN /\ (b[1] = NaN \/ a[1] > b[1])
             After(y) == Precedes(x, y) \/ ~Precedes(y, x)
             Before(y) == ~After(y)
         IN  SelectSeq(rest, Before) \o <<x>> \o SelectSeq(rest, After)

\* pairs <<key, item>> by ascending key, missing keys last, ties in input order
RECURSIVE sort_ascending(_)
sort_ascending(pairs) ==
    IF pairs = <<>> THEN <<>>
    ELSE LET rest == sort_ascending(Tail(pairs))
             x == Head(pairs)
             Precedes(a, b) == a[1] # NaN /\ (b[1] = NaN \/ a[1] < b[1])
             After(y) == Precedes(x, y) \/ ~Precedes(y, x)
             Before(y) == ~After(y)
         IN  SelectSeq(rest, Before) \o <<x>> \o SelectSeq(rest, After)

Items(pairs) == [k \in 1..Len(pairs) |-> pairs[k][2]]

FirstN(xs, n) == SubSeq(xs, 1, IF Len(xs) < n THEN Len(xs) ELSE n)

\* the four columns of a row that the comparisons read
key_row(df, row) ==
    [Keyword |-> Cell(df, row, c_Keyword),
     AvgPosition |-> Cell(df, row, c_AvgPosition),
     Impressions |-> Cell(df, row, c_Impressions),
     Clicks |-> Cell(df, row, c_Clicks)]

missing_row == [Keyword |-> NaN, AvgPosition |-> NaN, Impressions |-> NaN, Clicks |-> NaN]

\* combined_df[combined_df['Date'] == date]
rows_on(df, date) ==
    LET OnDate(row) == Cell(df, row, c_Date) = date
        kept == SelectSeq(df.rows, OnDate)
    IN  [k \in 1..Len(kept) |-> key_row(df, kept[k])]

keywords_of(rows) == {rows[k].Keyword : k \in 1..Len(rows)}

\* the rows of one keyword in an outer join: every left row with every right
\* row, or the rows of the one side that has the keyword
RECURSIVE pairs_of(_, _)
pairs_of(ls, rs) ==
    IF ls = <<>> /\ rs = <<>> THEN <<>>
    ELSE IF ls = <<>> THEN [k \in 1..Len(rs) |-> <<missing_row, rs[k]>>]
    ELSE IF rs = <<>> THEN [k \in 1..Len(ls) |-> <<ls[k], missing_row>>]
    ELSE [k \in 1..Len(rs) |-> <<Head(ls), rs[k]>>]
         \o (IF Tail(ls) = <<>> THEN <<>> ELSE pairs_of(Tail(ls), rs))

RECURSIVE join_keys(_, _, _)
join_keys(keys, left, right) ==
    IF keys = <<>> THEN <<>>
    ELSE LET Same(r) == r.Keyword = Head(keys)
         IN  pairs_of(SelectSeq(left, Same), SelectSeq(right, Same))
             \o join_keys(Tail(keys), left, right)

RECURSIVE SetToSeq(_)
SetToSeq(S) == IF S = {} THEN <<>> ELSE <<SetMin(S)>> \o SetToSeq(S \ {SetMin(S)})

\* how='outer' on Keyword: pairs <<left row, right row>>, keys in sorted order
outer_join(left, right) ==
    join_keys(SetToSeq(keywords_of(left) \cup keywords_of(right)), left, right)

(***************************************************************************)
(* get_historical_insights.                                                *)
(***************************************************************************)
TopN == 20

NoInsights ==
    [status |-> "None", latest_date |-> NoDate, previous_date |-> NoDate,
     merged |-> <<>>, improvements |-> <<>>, declines |-> <<>>,
     new_keywords |-> <<>>, dropped_keywords |-> <<>>]

\* line 229 with the operands of the subtraction exchanged
position_change_reversed(position, position_prev) ==
    Sub(position, fillna(position_prev, position))

\* line 229
position_change(position, position_prev) ==
    Sub(fillna(position_prev, position), position)

\* lines 223-229: one row of merged
merged_row(pair) ==
    [Keyword |-> fillna(pair[1].Keyword, pair[2].Keyword),
     AvgPosition |-> pair[1].AvgPosition,
     Impressions |-> pair[1].Impressions,
     Clicks |-> pair[1].Clicks,
     AvgPosition_prev |-> pair[2].AvgPosition,
     PositionChange |-> position_change(pair[1].AvgPosition, pair[2].AvgPosition)]

\* lines 242 and 247 without the negation of the mask
not_in_without_negation(rows, other) ==
    LET Present(r) == r.Keyword \in keywords_of(other)
    IN  SelectSeq(rows, Present)

\* lines 242 and 247: df[~df['Keyword'].isin(other['Keyword'])]
not_in(rows, other) ==
    LET Absent(r) == r.Keyword \notin keywords_of(other)
    IN  SelectSeq(rows, Absent)

by_impressions(rows) ==
    Items(sort_descending([k \in 1..Len(rows) |-> <<rows[k].Impressions, rows[k]>>]))

by_change(rows) == [k \in 1..Len(rows) |-> <<rows[k].PositionChange, rows[k]>>]

\* line 232 with >= in place of >
improved_or_unchanged(change) == change # NaN /\ change >= 0

\* line 232: merged['Position Change'] > 0, false for a missing value
improved(change) == change # NaN /\ change > 0

\* line 237: merged['Position Change'] < 0, false for a missing value
declined(change) == change # NaN /\ change < 0

get_historical_insights(combined_df, file_dates) ==
    LET IsKnown(fd) == fd[2] # NoDate
        with_date == SelectSeq(file_dates, IsKnown)
        dates == sorted([k \in 1..Len(with_date) |-> with_date[k][2]])
    IN  IF ~HasCol(combined_df, c_Date) \/ Len(file_dates) < 2 THEN NoInsights
        ELSE IF Len(dates) < 2 THEN NoInsights
        ELSE
        LET latest_date == dates[Len(dates)]
            previous_date == dates[Len(dates) - 1]
            latest_df == rows_on(combined_df, latest_date)
            previous_df == rows_on(combined_df, previous_date)
            joined == outer_join(latest_df, previous_df)
            merged == [k \in 1..Len(joined) |-> merged_row(joined[k])]
            Improved(r) == improved(r.PositionChange)
            Declined(r) == declined(r.PositionChange)
        IN  [status |-> "ok",
             latest_date |-> latest_date,
             previous_date |-> previous_date,
             merged |-> merged,
             improvements |->
                 FirstN(Items(sort_descending(by_change(SelectSeq(merged, Improved)))), TopN),
             declines |->
                 FirstN(Items(sort_ascending(by_change(SelectSeq(merged, Declined)))), TopN),
             new_keywords |-> by_impressions(not_in(latest_df, previous_df)),
             dropped_keywords |-> by_impressions(not_in(previous_df, latest_df))]

(***************************************************************************)
(* The Keyword Comparison tab (lines 434-452).                             *)
(***************************************************************************)
\* line 448 without fillna(0) on the second operand
impression_change_unfilled(impressions1, impressions2) ==
    Sub(fillna(impressions1, 0), impressions2)

impression_change(impressions1, impressions2) ==
    Sub(fillna(impressions1, 0), fillna(impressions2, 0))

\* line 449 without fillna(0) on the second operand
click_change_unfilled(clicks1, clicks2) == Sub(fillna(clicks1, 0), clicks2)

\* line 449
click_change(clicks1, clicks2) == Sub(fillna(clicks1, 0), fillna(clicks2, 0))

\* line 450: position of period2 minus position of period1
comparison_position_change(position1, position2) ==
    Sub(fillna(position2, position1), fillna(position1, position2))

comparison_row(pair) ==
    [Keyword |-> fillna(pair[1].Keyword, pair[2].Keyword),
     Impressions1 |-> pair[1].Impressions,
     Clicks1 |-> pair[1].Clicks,
     Position1 |-> pair[1].AvgPosition,
     Impressions2 |-> pair[2].Impressions,
     Clicks2 |-> pair[2].Clicks,
     Position2 |-> pair[2].AvgPosition,
     ImpressionChange |-> impression_change(pair[1].Impressions, pair[2].Impressions),
     ClickChange |-> click_change(pair[1].Clicks, pair[2].Clicks),
     PositionChange |->
         comparison_position_change(pair[1].AvgPosition, pair[2].AvgPosition)]

\* line 446: comparison_df.merge(prev_comparison, on='Keyword', how='outer')
comparison_merge(period1_df, period2_df) == outer_join(period1_df, period2_df)

keyword_comparison(combined_df, period1, period2) ==
    LET joined == comparison_merge(rows_on(combined_df, period1),
                                   rows_on(combined_df, period2))
        rows == [k \in 1..Len(joined) |-> comparison_row(joined[k])]
    IN  Items(sort_descending(
            [k \in 1..Len(rows) |-> <<rows[k].ImpressionChange, rows[k]>>]))

(***************************************************************************)
(* The historical view (lines 299-455) over the files of the directory.    *)
(***************************************************************************)

DiskNames ==
    { <<"a","-","2","0","2","5","-","1","1","-","1","4",".","x","l","s","x">>,
      <<"b","_","2","0","2","5","1","2","3","1",".","x","l","s","x">>,
      <<"c","-","2","0","2","5","-","1","1","-","1","4",".","x","l","s","x">>,
      <<"d","-","2","0","2","5","-","1","3","-","0","1",".","x","l","s">> }

DiskMTimes == {20260105}

L_Std == <<H_Query, H_Position, H_Impressions, H_Clicks>>
L_Full == <<H_TopQueries, H_Clicks, H_Impressions, H_CTR, H_Position>>
L_NoClicks == <<H_QUERY, H_POSITION, H_Impressions>>
L_ClicksOnly == <<H_Query, H_Position, H_Clicks>>
L_NoPosition == <<H_Query, H_Impressions, H_Clicks>>

\* two exports with more moving keywords than the lists of movers hold, a
\* keyword that keeps its position and a keyword that only one of them has
MoverCount == 22

MoversBefore ==
    MkDataset(L_Std,
        [k \in 1..MoverCount |-> Profile(k, 5 * PosScale + k, 100 + k, k)]
        \o <<Profile(MoverCount + 1, 5 * PosScale, 500, 50),
              Profile(MoverCount + 2, 3 * PosScale, 300, 30)>>)

MoversAfter ==
    MkDataset(L_Std,
        [k \in 1..MoverCount |-> Profile(k, 5 * PosScale - k, 100 + k, k)]
        \o <<Profile(MoverCount + 1, 5 * PosScale, 500, 50),
              Profile(MoverCount + 3, 3 * PosScale, 300, 30)>>)

DiskDatasets ==
    { MkDataset(L_Std, <<Profile(1, 20, 500, 50), Profile(2, 50, 1000, 5)>>),
      MkDataset(L_Std, <<Profile(1, 50, 400, 40), Profile(3, 100, 300, 30),
                         Profile(2, 120, 900, 9)>>),
      MkDataset(L_Std, <<Profile(1, 20, 500, 50), Profile(1, 40, 300, 30)>>),
      MkDataset(L_Std, <<Profile(1, 101, 500, 50)>>),
      MkDataset(L_Full, <<Profile(1, 10, 600, 60), Profile(3, 9, 300, 30),
                          Profile(2, 20, 1000, 5)>>),
      MkDataset(L_NoClicks, <<Profile(2, 30, 1000, 5)>>),
      MkDataset(L_ClicksOnly, <<Profile(1, 30, 500, 50)>>),
      MkDataset(L_NoPosition, <<Profile(1, 30, 500, 50)>>),
      MoversBefore, MoversAfter }

\* the labels the Trends section aggregates (lines 326-339)
trend_columns == {c_Keyword, c_Impressions, c_Clicks, c_AvgPosition}

Init ==
    /\ disk = {}
    /\ pc = "start"
    /\ historical = NoHistory
    /\ insights = NoInsights
    /\ comparison = [period1 |-> NoDate, period2 |-> NoDate, rows |-> <<>>]
    /\ file_path = <<>> /\ file_mtime = NoDate /\ parsed = NoDate
    /\ uploaded_file = EmptyFrame /\ result = Unset
    /\ opportunities = NoOpportunities

\* a spreadsheet is saved into the directory
AddFile ==
    /\ pc = "start"
    /\ Cardinality(disk) < MaxFiles
    /\ \E name \in DiskNames, mtime \in DiskMTimes, df \in DiskDatasets :
           /\ \A f \in disk : f.name # name
           /\ disk' = disk \cup {[name |-> name, mtime |-> mtime, df |-> df]}
    /\ UNCHANGED <<pc, historical, insights, comparison,
                   file_path, file_mtime, parsed, uploaded_file, result, opportunities>>

\* lines 299-305
LoadHistory ==
    /\ pc = "start"
    /\ historical' = load_all_historical_data(disk)
    /\ pc' = CASE historical'.status = "ok" -> "loaded"
                [] historical'.status = "None" -> "no_data"
                [] OTHER -> "raised"
    /\ UNCHANGED <<disk, insights, comparison,
                   file_path, file_mtime, parsed, uploaded_file, result, opportunities>>

\* lines 326-392: the aggregation needs its columns, else the run ends in KeyError
Trends ==
    /\ pc = "loaded"
    /\ pc' = IF ~HasCol(historical.combined_df, c_Date) THEN "no_dates"
              ELSE IF \A c \in trend_columns :
                         Cardinality(ColIdxs(historical.combined_df, c)) = 1
                   THEN "trends"
              ELSE "raised"
    /\ UNCHANGED <<disk, historical, insights, comparison,
                   file_path, file_mtime, parsed, uploaded_file, result, opportunities>>

\* line 395
Insights ==
    /\ pc = "trends"
    /\ insights' = get_historical_insights(historical.combined_df, historical.file_dates)
    /\ pc' = "insights"
    /\ UNCHANGED <<disk, historical, comparison,
                   file_path, file_mtime, parsed, uploaded_file, result, opportunities>>

\* lines 315-323 and 432-455: the two periods are picked among the dates
KeywordComparison ==
    /\ pc = "insights"
    /\ insights.status = "ok"
    /\ \E i, j \in 1..Len(historical.file_dates) :
           LET period1 == historical.file_dates[i][2]
               period2 == historical.file_dates[j][2]
           IN  /\ period1 # NoDate /\ period2 # NoDate /\ period1 # period2
               /\ comparison' =
                      [period1 |-> period1, period2 |-> period2,
                       rows |-> keyword_comparison(historical.combined_df,
                                                   period1, period2)]
    /\ pc' = "compared"
    /\ UNCHANGED <<disk, historical, insights,
                   file_path, file_mtime, parsed, uploaded_file, result, opportunities>>

\* lines 273-296 and 528-531: the single-file view of a file of the directory
SelectedFileView ==
    /\ pc = "start"
    /\ \E f \in disk : result' = process_search_console_file(f.df, NoDate)
    /\ pc' = "single"
    /\ UNCHANGED <<disk, historical, insights, comparison,
                   file_path, file_mtime, parsed, uploaded_file, opportunities>>

\* the next interaction runs the script again from the top
Rerun ==
    /\ pc # "start"
    /\ pc' = "start"
    /\ result' = Unset
    /\ historical' = NoHistory
    /\ insights' = NoInsights
    /\ comparison' = [period1 |-> NoDate, period2 |-> NoDate, rows |-> <<>>]
    /\ UNCHANGED <<disk, file_path, file_mtime, parsed, uploaded_file, opportunities>>

Next ==
    \/ AddFile
    \/ LoadHistory
    \/ Trends
    \/ Insights
    \/ KeywordComparison
    \/ SelectedFileView
    \/ Rerun

Spec == Init /\ [][Next]_vars

(***************************************************************************)
(* get_keyword_opportunities and the single-file view that calls it.       *)
(***************************************************************************)
\* df[c] without the missing values, ascending
column_values(df, c) ==
    LET Known(x) == x # NaN
    IN  sorted(SelectSeq([j \in 1..Len(df.rows) |-> Cell(df, df.rows[j], c)], Known))

\* Series.quantile(num / den): linear interpolation between the two nearest
\* ranks, as <<numerator, den>>; NaN, written <<0, 0>>, for an empty column
\* and when a rank it interpolates between is infinite
quantile(values, num, den) ==
    LET n == Len(values)
        h == (n - 1) * num
        i == h \div den
        r == h % den
        lo == values[i + 1]
        hi == IF i + 2 <= n THEN values[i + 2] ELSE lo
    IN  IF n = 0 THEN <<0, 0>>
        ELSE IF lo = Inf \/ hi = Inf THEN <<0, 0>>
        ELSE <<den * lo + r * (hi - lo), den>>

\* x > q and x < q for a cell x and a quantile q
above(x, q) == x # NaN /\ q[2] # 0 /\ (x = Inf \/ q[2] * x > q[1])
below(x, q) == x # NaN /\ q[2] # 0 /\ x # Inf /\ q[2] * x < q[1]

\* sort_values(c, ascending=False) of the rows of df
sort_rows_descending(df, rows, c) ==
    Items(sort_descending([k \in 1..Len(rows) |-> <<Cell(df, rows[k], c), rows[k]>>]))

\* line 191 with 4 < position in place of 4 <= position
is_quick_win_above_4(position) ==
    position # NaN /\ 4 * PosScale < position /\ position <= 6 * PosScale

\* line 191: df['Avg Position'].between(4, 6)
is_quick_win(position) == between(position, 4 * PosScale, 6 * PosScale)

\* lines 181-186
high_imp_low_clicks(df) ==
    LET q_imp == quantile(column_values(df, c_Impressions), 3, 4)
        q_clk == quantile(column_values(df, c_Clicks), 1, 2)
        Flagged(row) == /\ above(Cell(df, row, c_Impressions), q_imp)
                        /\ below(Cell(df, row, c_Clicks), q_clk)
    IN  sort_rows_descending(df, SelectSeq(df.rows, Flagged), c_Impressions)

\* lines 191-193
quick_wins(df) ==
    LET Flagged(row) == is_quick_win(Cell(df, row, c_AvgPosition))
    IN  sort_rows_descending(df, SelectSeq(df.rows, Flagged), c_Impressions)

\* lines 197-199
high_ctr(df) ==
    LET q_ctr == quantile(column_values(df, c_CTR), 3, 4)
        Flagged(row) == above(Cell(df, row, c_CTR), q_ctr)
    IN  sort_rows_descending(df, SelectSeq(df.rows, Flagged), c_CTR)

Unique(df, c) == Cardinality(ColIdxs(df, c)) = 1

\* what the three blocks need: a label that is there twice gives a frame in
\* place of a column, a text column has no quantile, and sort_values on a
\* label that is not there raises KeyError
opportunities_raise(df) ==
    \/ /\ HasCol(df, c_Impressions) /\ HasCol(df, c_Clicks)
       /\ \/ ~Unique(df, c_Impressions) \/ ~Unique(df, c_Clicks)
          \/ KindOf(df, c_Impressions) = "text" \/ KindOf(df, c_Clicks) = "text"
    \/ /\ HasCol(df, c_AvgPosition)
       /\ \/ ~Unique(df, c_AvgPosition)
          \/ KindOf(df, c_AvgPosition) = "text"
          \/ (quick_wins(df) # <<>> /\ ~Unique(df, c_Impressions))
    \/ /\ HasCol(df, c_CTR)
       /\ (~Unique(df, c_CTR) \/ KindOf(df, c_CTR) = "text")

opportunity_entries(df) ==
    [status |-> "ok",
     entries |->
         {e \in {"High Impressions, Low Clicks", "Quick Wins (Position 4-6)",
                 "High CTR Keywords"} :
             \/ /\ e = "High Impressions, Low Clicks"
                /\ HasCol(df, c_Impressions) /\ HasCol(df, c_Clicks)
                /\ high_imp_low_clicks(df) # <<>>
             \/ /\ e = "Quick Wins (Position 4-6)"
                /\ HasCol(df, c_AvgPosition) /\ quick_wins(df) # <<>>
             \/ /\ e = "High CTR Keywords"
                /\ HasCol(df, c_CTR) /\ high_ctr(df) # <<>>},
     high_imp_low_clicks |->
         IF HasCol(df, c_Impressions) /\ HasCol(df, c_Clicks)
         THEN high_imp_low_clicks(df) ELSE <<>>,
     quick_wins |-> IF HasCol(df, c_AvgPosition) THEN quick_wins(df) ELSE <<>>,
     high_ctr |-> IF HasCol(df, c_CTR) THEN high_ctr(df) ELSE <<>>]

get_keyword_opportunities(df) ==
    IF opportunities_raise(df) THEN [NoOpportunities EXCEPT !.status = "raised"]
    ELSE opportunity_entries(df)

\* the choices of "Sort by" (line 570)
SortChoices == {c_Impressions, c_Clicks, c_CTR, c_AvgPosition}

\* lines 540-632: the totals are formatted as numbers (a label that is there
\* twice gives a Series, which cannot be), the table is sorted by the chosen
\* column and shows Keyword, Avg Position, Impressions and Clicks
view_raises(df, sort_by) ==
    \/ \E c \in {c_Impressions, c_Clicks, c_AvgPosition} :
           HasCol(df, c) /\ ~Unique(df, c)
    \/ ~Unique(df, sort_by)
    \/ \E c \in {c_Keyword, c_AvgPosition, c_Impressions, c_Clicks} : ~HasCol(df, c)

SummaryAndTable ==
    /\ pc = "single"
    /\ result.status = "ok"
    /\ \E sort_by \in SortChoices :
           pc' = IF view_raises(result.result_df, sort_by) THEN "raised" ELSE "table"
    /\ UNCHANGED <<file_path, file_mtime, parsed, uploaded_file, result,
                   disk, historical, insights, comparison, opportunities>>

\* line 635
Opportunities ==
    /\ pc = "table"
    /\ opportunities' = get_keyword_opportunities(result.result_df)
    /\ pc' = IF opportunities'.status = "raised" THEN "raised" ELSE "opportunities"
    /\ UNCHANGED <<file_path, file_mtime, parsed, uploaded_file, result,
                   disk, historical, insights, comparison>>

NextFile ==
    \/ SingleFileView
    \/ SummaryAndTable
    \/ Opportunities

SpecFile == InitFile /\ [][NextFile]_vars

(***************************************************************************)
(* The CTR rescale step (lines 127-131) on its own, applied to a CTR       *)
(* column and then to its own result.                                      *)
(***************************************************************************)
\* CTR values: 0, 0.005, 0.01, 0.1, 1.0, 1.01, 50.0, 100.0 and a missing value
CtrValues == {0, CtrOne \div 200, CtrOne \div 100, CtrOne \div 10, CtrOne,
              CtrOne + CtrOne \div 100, 50 * CtrOne, 100 * CtrOne, NaN}

CtrFrame(values) ==
    [cols |-> <<c_CTR>>, kind |-> <<"num">>,
     rows |-> [j \in 1..Len(values) |-> <<values[j]>>]]

InitRescale ==
    /\ uploaded_file \in {CtrFrame(v) : v \in SeqsUpTo(CtrValues, MaxRows) \ {<<>>}}
    /\ result = Unset
    /\ pc = "start"
    /\ file_path = <<>> /\ file_mtime = NoDate /\ parsed = NoDate
    /\ disk = {} /\ historical = <<>> /\ insights = <<>> /\ comparison = <<>>
    /\ opportunities = NoOpportunities

\* lines 127-131 on the source column, then on the column they returned
Rescale ==
    /\ pc \in {"start", "rescaled"}
    /\ result' = [status |-> "ok",
                  result_df |-> rescale_ctr(IF pc = "start" THEN uploaded_file
                                            ELSE result.result_df)]
    /\ pc' = IF pc = "start" THEN "rescaled" ELSE "rescaled again"
    /\ UNCHANGED <<file_path, file_mtime, parsed, uploaded_file,
                   disk, historical, insights, comparison, opportunities>>

NextRescale == Rescale

SpecRescale == InitRescale /\ [][NextRescale]_vars

(***************************************************************************)
(* Properties.                                                             *)
(***************************************************************************)
SourceHas(df, field) == \E i \in 1..Len(df.cols) : HeaderMatches(df.cols[i], field)

RowsInTopTen(df) ==
    \A j \in 1..Len(df.rows) :
        /\ Cell(df, df.rows[j], c_AvgPosition) >= 1 * PosScale
        /\ Cell(df, df.rows[j], c_AvgPosition) <= 10 * PosScale

\* C1: every row of a returned snapshot, and every row of the longitudinal
\* table built from any files, has 1 <= Position <= 10
C1_PositionsInTopTen ==
    /\ result.status = "ok" => RowsInTopTen(result.result_df)
    /\ historical.status = "ok" => RowsInTopTen(historical.combined_df)

\* a table holding a row at position 10.0 and one at 1.0, built from a file
\* that also had a row outside the range
C1_Witness ==
    /\ historical.status = "ok"
    /\ \E j \in 1..Len(historical.combined_df.rows) :
           Cell(historical.combined_df, historical.combined_df.rows[j], c_AvgPosition)
               = 10 * PosScale
    /\ \E j \in 1..Len(historical.combined_df.rows) :
           Cell(historical.combined_df, historical.combined_df.rows[j], c_AvgPosition)
               = 1 * PosScale
    /\ \E f \in disk : \E j \in 1..Len(f.df.rows) :
           /\ \E e \in Range(historical.file_dates) : e[1] = f.name
           /\ ~in_top_10(Cell(f.df, f.df.rows[j], LastMatch(f.df.cols, "position")))

\* C5: a dataset without a Position header or without a Keyword header is
\* refused at schema resolution; with both, schema resolution does not fail
C5_MandatoryColumns ==
    pc = "single" =>
        /\ ~SourceHas(uploaded_file, "position") => result.status = "no_position"
        /\ (SourceHas(uploaded_file, "position") /\ ~SourceHas(uploaded_file, "keyword"))
               => result.status = "no_keyword"
        /\ (SourceHas(uploaded_file, "position") /\ SourceHas(uploaded_file, "keyword"))
               => result.status \notin {"no_position", "no_keyword"}

\* a dataset with a Position header, rows in the top ten, impressions and
\* clicks, refused for want of a Keyword header
C5_Witness ==
    /\ pc = "single"
    /\ result.status = "no_keyword"
    /\ SourceHas(uploaded_file, "impressions")
    /\ SourceHas(uploaded_file, "clicks")
    /\ \E j \in 1..Len(uploaded_file.rows) :
           in_top_10(Cell(uploaded_file, uploaded_file.rows[j],
                          LastMatch(uploaded_file.cols, "position")))

\* C10: a CTR column is derived exactly when the source has no CTR header and
\* has both a Clicks and an Impressions header, and the derived value of every
\* kept row is round(Clicks / Impressions * 100, 2)
C10_DerivedCTR ==
    (pc = "single" /\ result.status = "ok") =>
        LET derived == ~SourceHas(uploaded_file, "ctr") /\ HasCol(result.result_df, c_CTR)
            df == result.result_df
        IN  /\ derived <=> (/\ ~SourceHas(uploaded_file, "ctr")
                            /\ SourceHas(uploaded_file, "clicks")
                            /\ SourceHas(uploaded_file, "impressions"))
            /\ derived =>
                   \A j \in 1..Len(df.rows) :
                       Cell(df, df.rows[j], c_CTR) =
                           derive_ctr(Cell(df, df.rows[j], c_Clicks),
                                      Cell(df, df.rows[j], c_Impressions))

ValidDashDates(s) ==
    {DateNum(DashFields(s, i)[1], DashFields(s, i)[2], DashFields(s, i)[3]) :
        i \in {k \in 1..Len(s) :
                  /\ DashMatchAt(s, k)
                  /\ ValidDate(DashFields(s, k)[1], DashFields(s, k)[2], DashFields(s, k)[3])}}

ValidDigitDates(s) ==
    {DateNum(DigitsFields(s, i)[1], DigitsFields(s, i)[2], DigitsFields(s, i)[3]) :
        i \in {k \in 1..Len(s) :
                  /\ DigitsMatchAt(s, k)
                  /\ ValidDate(DigitsFields(s, k)[1], DigitsFields(s, k)[2],
                               DigitsFields(s, k)[3])}}

\* C7: the date of a file name is a YYYY-MM-DD occurrence of the name that is a
\* valid calendar date when there is one, else an occurrence of 8 digits that
\* is a valid YYYYMMDD date when there is one, else the modification date of
\* the file, which is null when the file is not on disk
C7_DateOfFileName ==
    pc = "parsed" =>
        IF ValidDashDates(file_path) # {} THEN parsed \in ValidDashDates(file_path)
        ELSE IF ValidDigitDates(file_path) # {} THEN parsed \in ValidDigitDates(file_path)
        ELSE parsed = file_mtime

LatestRows == rows_on(historical.combined_df, insights.latest_date)
PreviousRows == rows_on(historical.combined_df, insights.previous_date)
Period1Rows == rows_on(historical.combined_df, comparison.period1)
Period2Rows == rows_on(historical.combined_df, comparison.period2)

\* C2: for a keyword present on the current and on the baseline date, Position
\* Change is the baseline position minus the current position, positive
\* exactly when the position number got lower, in the insights and in the
\* custom comparison alike
C2_PositionChangeSign ==
    /\ insights.status = "ok" =>
           \A c \in Range(LatestRows), b \in Range(PreviousRows) :
               c.Keyword = b.Keyword =>
                   \E m \in Range(insights.merged) :
                       /\ m.Keyword = c.Keyword
                       /\ m.AvgPosition = c.AvgPosition
                       /\ m.AvgPosition_prev = b.AvgPosition
                       /\ m.PositionChange = b.AvgPosition - c.AvgPosition
                       /\ m.PositionChange > 0 <=> c.AvgPosition < b.AvgPosition
    /\ pc = "compared" =>
           \A c \in Range(Period1Rows), b \in Range(Period2Rows) :
               c.Keyword = b.Keyword =>
                   \E m \in Range(comparison.rows) :
                       /\ m.Keyword = c.Keyword
                       /\ m.Position1 = c.AvgPosition
                       /\ m.Position2 = b.AvgPosition
                       /\ m.PositionChange = b.AvgPosition - c.AvgPosition
                       /\ m.PositionChange > 0 <=> c.AvgPosition < b.AvgPosition

\* current position 2.0 and baseline position 5.0 give +3.0 in both tables
C2_Witness ==
    /\ pc = "compared"
    /\ comparison.period1 = insights.latest_date
    /\ comparison.period2 = insights.previous_date
    /\ \E m \in Range(insights.merged) :
           /\ m.AvgPosition = 2 * PosScale /\ m.AvgPosition_prev = 5 * PosScale
           /\ m.PositionChange = 3 * PosScale
    /\ \E m \in Range(comparison.rows) :
           /\ m.Position1 = 2 * PosScale /\ m.Position2 = 5 * PosScale
           /\ m.PositionChange = 3 * PosScale

LoadedDates == {historical.file_dates[k][2] : k \in 1..Len(historical.file_dates)} \ {NoDate}

\* C3: with at least two distinct non-null dates among the loaded files the
\* current date is the largest and the baseline the second largest distinct
\* date; with fewer, get_historical_insights returns None
C3_DefaultPeriods ==
    pc \in {"insights", "compared"} =>
        IF Cardinality(LoadedDates) >= 2
        THEN /\ insights.status = "ok"
             /\ insights.latest_date = SetMax(LoadedDates)
             /\ insights.previous_date = SetMax(LoadedDates \ {SetMax(LoadedDates)})
             /\ insights.latest_date # insights.previous_date
        ELSE insights.status = "None"

NewAndDroppedOf(latest, previous, on_latest, on_previous) ==
    /\ Range(insights.new_keywords) =
           {r \in Range(latest) : r.Keyword \notin on_previous}
    /\ Range(insights.dropped_keywords) =
           {r \in Range(previous) : r.Keyword \notin on_latest}
    /\ Len(insights.new_keywords) =
           Cardinality({k \in 1..Len(latest) : latest[k].Keyword \notin on_previous})
    /\ Len(insights.dropped_keywords) =
           Cardinality({k \in 1..Len(previous) : previous[k].Keyword \notin on_latest})
    /\ keywords_of(insights.new_keywords)
           \cap keywords_of(insights.dropped_keywords) = {}
    /\ \A k \in on_latest \cap on_previous :
           /\ k \notin keywords_of(insights.new_keywords)
           /\ k \notin keywords_of(insights.dropped_keywords)

\* C4: New Keywords is the set of rows of the current date whose keyword does
\* not occur on the baseline date, Dropped Keywords the set of rows of the
\* baseline date whose keyword does not occur on the current date; no keyword
\* is in both, and a keyword of both dates is in neither
C4_NewAndDropped ==
    insights.status = "ok" =>
        NewAndDroppedOf(LatestRows, PreviousRows,
                        keywords_of(LatestRows), keywords_of(PreviousRows))

\* two distinct dates with a new keyword, a dropped keyword and a shared one
C4_Witness ==
    /\ insights.status = "ok"
    /\ insights.latest_date # insights.previous_date
    /\ insights.new_keywords # <<>>
    /\ insights.dropped_keywords # <<>>
    /\ keywords_of(LatestRows) \cap keywords_of(PreviousRows) # {}

SnapshotOf(f) ==
    process_search_console_file(f.df, extract_date_from_filename(f.name, f.mtime))

FileNamed(name) == CHOOSE f \in disk : f.name = name

Labels == {c_Keyword, c_AvgPosition, c_Impressions, c_Clicks, c_CTR, c_Date}

LabelledRows(df) ==
    [j \in 1..Len(df.rows) |-> [c \in Labels |-> Cell(df, df.rows[j], c)]]

RECURSIVE SnapshotRows(_)
SnapshotRows(file_dates) ==
    IF file_dates = <<>> THEN <<>>
    ELSE LabelledRows(SnapshotOf(FileNamed(Head(file_dates)[1])).result_df)
         \o SnapshotRows(Tail(file_dates))

\* C6: after load_all_historical_data, the (file, date) list names exactly the
\* files whose extraction succeeds, in ascending order of name, and the
\* longitudinal table is the concatenation of their snapshots in that order;
\* there is no table only when no file succeeds
C6_FailedFilesSkipped ==
    pc \in {"loaded", "no_data", "raised", "no_dates", "trends", "insights", "compared"} =>
        IF \A f \in disk : SnapshotOf(f).status # "ok"
        THEN historical.status = "None"
        ELSE /\ historical.status = "ok"
             /\ {historical.file_dates[k][1] : k \in 1..Len(historical.file_dates)}
                    = {f.name : f \in {g \in disk : SnapshotOf(g).status = "ok"}}
             /\ \A i, j \in 1..Len(historical.file_dates) :
                    i < j => StrLess(historical.file_dates[i][1], historical.file_dates[j][1])
             /\ \A k \in 1..Len(historical.file_dates) :
                    historical.file_dates[k][2] =
                        extract_date_from_filename(
                            historical.file_dates[k][1],
                            FileNamed(historical.file_dates[k][1]).mtime)
             /\ LabelledRows(historical.combined_df) = SnapshotRows(historical.file_dates)

RowsWithDate(df, date) ==
    LET OnDate(row) == Cell(df, row, c_Date) = date
    IN  SelectSeq(df.rows, OnDate)

\* the rows of the table with this date are the rows of the snapshot, in order,
\* with the same value in every column of the snapshot but Date
SameColumn(back, rows, c_back, c_rows) ==
    \A j \in 1..Len(back) : back[j][c_back] = rows[j][c_rows]

SameRows(back, snapshot) ==
    /\ Len(back) = Len(snapshot.rows)
    /\ \A c \in Range(snapshot.cols) \ {c_Date} :
           /\ HasCol(historical.combined_df, c)
           /\ SameColumn(back, snapshot.rows,
                         ColIndex(historical.combined_df, c), ColIndex(snapshot, c))

Reproduces(date, snapshot) ==
    SameRows(RowsWithDate(historical.combined_df, date), snapshot)

DateIsShared(k) ==
    \E i \in 1..Len(historical.file_dates) :
        i # k /\ historical.file_dates[i][2] = historical.file_dates[k][2]

Negated(x) == IF x = NaN THEN NaN ELSE 0 - x

DeltasOf(rows) ==
    [k \in 1..Len(rows) |->
        <<rows[k].Keyword, rows[k].ImpressionChange, rows[k].ClickChange,
          rows[k].PositionChange>>]

NegatedDeltasOf(rows) ==
    [k \in 1..Len(rows) |->
        <<rows[k].Keyword, Negated(rows[k].ImpressionChange),
          Negated(rows[k].ClickChange), Negated(rows[k].PositionChange)>>]

SeqToBag(xs) == [x \in Range(xs) |-> Cardinality({k \in 1..Len(xs) : xs[k] = x})]

ReverseComparison ==
    keyword_comparison(historical.combined_df, comparison.period2, comparison.period1)

\* C9: the comparison of (D1, D2) has, keyword by keyword, the negated
\* Impression Change, Click Change and Position Change of the comparison of
\* (D2, D1), and the two comparisons have the same keywords
C9_ComparisonSymmetry ==
    pc = "compared" =>
        /\ SeqToBag(NegatedDeltasOf(comparison.rows)) = SeqToBag(DeltasOf(ReverseComparison))
        /\ keywords_of(comparison.rows) = keywords_of(ReverseComparison)

\* a comparison with a keyword of the first period only, one of the second
\* period only, and one of both periods whose three deltas are not zero
C9_Witness ==
    /\ pc = "compared"
    /\ \E r \in Range(comparison.rows) : r.Position1 # NaN /\ r.Position2 = NaN
    /\ \E r \in Range(comparison.rows) : r.Position1 = NaN /\ r.Position2 # NaN
    /\ \E r \in Range(comparison.rows) :
           /\ r.Position1 # NaN /\ r.Position2 # NaN
           /\ r.ImpressionChange # 0 /\ r.ClickChange # 0 /\ r.PositionChange # 0

\* C11: every row of a returned snapshot that carries a CTR has
\* 0 <= CTR <= 100, whether the CTR was read as a percentage, read as a
\* fraction and rescaled, or derived from Clicks and Impressions
C11_CtrIsPercentage ==
    (pc = "single" /\ result.status = "ok" /\ HasCol(result.result_df, c_CTR)) =>
        \A j \in 1..Len(result.result_df.rows) :
            LET ctr == Cell(result.result_df, result.result_df.rows[j], c_CTR)
            IN  ctr # NaN => (0 <= ctr /\ ctr <= 100 * CtrOne)

AllZero(df) == \A j \in 1..Len(df.rows) : Cell(df, df.rows[j], c_CTR) = 0

\* C12: the rescale step applied to a CTR column it has already produced or
\* left unchanged changes no value, unless all values of the column are zero
C12_RescaleIdempotent ==
    [][(pc = "rescaled" /\ ~AllZero(uploaded_file)) => result' = result]_vars

QuickWinRows ==
    {j \in 1..Len(result.result_df.rows) :
        LET position == Cell(result.result_df, result.result_df.rows[j], c_AvgPosition)
        IN  4 * PosScale <= position /\ position <= 6 * PosScale}

C14_ClicksAsImpressions ==
    (/\ result.status = "ok"
     /\ uploaded_file # EmptyFrame
     /\ ~SourceHas(uploaded_file, "impressions")
     /\ SourceHas(uploaded_file, "clicks")) =>
        /\ HasCol(result.result_df, c_Impressions)
        /\ \A j \in 1..Len(result.result_df.rows) :
               Cell(result.result_df, result.result_df.rows[j], c_Impressions)
                   = Cell(result.result_df, result.result_df.rows[j], c_Clicks)

\* the columns of the uploaded sheet whose lower-cased, trimmed name holds a
\* keyword of the field
Candidates(field) ==
    {i \in 1..Len(uploaded_file.cols) : HeaderMatches(uploaded_file.cols[i], field)}

\* the source column the schema resolution gave to the field
FieldOf(m, field) ==
    CASE field = "position" -> m.position_col
      [] field = "impressions" -> m.impressions_col
      [] field = "clicks" -> m.clicks_col
      [] field = "ctr" -> m.ctr_col
      [] field = "keyword" -> m.keyword_col

Resolved(field) == FieldOf(find_columns(uploaded_file.cols), field)

\* col is the last of the candidate columns, or no column when there is none
IsLastOf(candidates, col) ==
    /\ candidates = {} => col = NoCol
    /\ candidates # {} =>
           /\ col = uploaded_file.cols[SetMax(candidates)]
           /\ \A i \in candidates :
                  uploaded_file.cols[i] # col => i < SetMax(candidates)

\* C15: each field is given the last column, in header order, whose
\* lower-cased and trimmed name holds one of the field's keywords, and no
\* column when there is none, whatever the other fields were given; the
\* header ' POSITION ' counts as a position column
C15_LastMatchingColumn ==
    pc = "single" =>
        /\ \A field \in Fields : IsLastOf(Candidates(field), Resolved(field))
        /\ \A i \in 1..Len(uploaded_file.cols) :
               uploaded_file.cols[i] = H_POSITION.name =>
                   HeaderMatches(uploaded_file.cols[i], "position")

\* a sheet with 'Position' before ' POSITION ' and a column that is both the
\* CTR and the keyword column: the later position header is the one assigned
C15_Witness ==
    /\ pc = "single"
    /\ Cardinality(Candidates("position")) = 2
    /\ Resolved("position") = H_POSITION.name
    /\ uploaded_file.cols[SetMin(Candidates("position"))] = H_Position.name
    /\ Resolved("ctr") = H_CtrQuery.name
    /\ Resolved("keyword") = H_CtrQuery.name

ListedMovers == Range(insights.improvements) \cup Range(insights.declines)

OnBothDates == keywords_of(LatestRows) \cap keywords_of(PreviousRows)

\* every listed improvement is positive and no smaller than a row left out
LargestGains(listed, others) ==
    \A l \in listed :
        /\ l.PositionChange # NaN /\ l.PositionChange > 0
        /\ \A r \in others : r.PositionChange = NaN \/ r.PositionChange <= l.PositionChange

\* every listed decline is negative and no greater than a row left out
LargestLosses(listed, others) ==
    \A l \in listed :
        /\ l.PositionChange # NaN /\ l.PositionChange < 0
        /\ \A r \in others : r.PositionChange = NaN \/ r.PositionChange >= l.PositionChange

MovedOnBoth(listed, on_both) ==
    \A l \in listed : l.PositionChange # 0 /\ l.Keyword \in on_both

\* C16: the list of improvements has at most 20 rows of the join, each with a
\* positive Position Change and none smaller than the change of a row left
\* out; the list of declines has at most 20 rows, each with a negative change
\* and none greater than the change of a row left out; a row with change 0
\* and a keyword that only one of the two dates has are in neither list
C16_BiggestMovers ==
    (pc = "insights" /\ insights.status = "ok") =>
        /\ Len(insights.improvements) <= 20
        /\ Len(insights.declines) <= 20
        /\ ListedMovers \subseteq Range(insights.merged)
        /\ LargestGains(Range(insights.improvements),
                        Range(insights.merged) \ Range(insights.improvements))
        /\ LargestLosses(Range(insights.declines),
                         Range(insights.merged) \ Range(insights.declines))
        /\ MovedOnBoth(ListedMovers, OnBothDates)

\* 22 keywords improved, one kept its position, one is new and one is gone:
\* 20 improvements are listed and the two smallest are left out
C16_Witness ==
    /\ pc = "insights" /\ insights.status = "ok"
    /\ Len(insights.improvements) = 20
    /\ \E r \in Range(insights.merged) \ Range(insights.improvements) :
           r.PositionChange # NaN /\ r.PositionChange > 0
    /\ \E r \in Range(insights.merged) :
           r.PositionChange = 0 /\ r.Keyword \in OnBothDates
    /\ \E r \in Range(insights.merged) :
           r.Keyword \in keywords_of(LatestRows) \ keywords_of(PreviousRows)
    /\ \E r \in Range(insights.merged) :
           r.Keyword \in keywords_of(PreviousRows) \ keywords_of(LatestRows)

\* the rows of the comparison whose keyword the second period does not have
RowsNotOn(on_period2) ==
    {r \in Range(comparison.rows) : r.Keyword \notin on_period2}

NewInComparison == RowsNotOn(keywords_of(Period2Rows))

\* the metrics of the row are those of a row of the first period
ReportedAsIs(r, period1) ==
    \E p \in Range(period1) :
        /\ p.Keyword = r.Keyword
        /\ p.Impressions = r.Impressions1
        /\ p.Clicks = r.Clicks1
        /\ p.AvgPosition = r.Position1

NoDeltas(new, period1) ==
    \A r \in new :
        r.ImpressionChange = NaN /\ r.ClickChange = NaN /\ ReportedAsIs(r, period1)

OnlyOnBoth(on_both) ==
    \A r \in Range(comparison.rows) : r.ImpressionChange # NaN => r.Keyword \in on_both

\* C17 as stated: a keyword that only the first period has gets no numeric
\* Impression Change and Click Change, its metrics are reported unchanged, and
\* a numeric Impression Change is reported only for keywords of both periods
C17_NewKeywordDeltasUndefined ==
    pc = "compared" =>
        /\ NoDeltas(NewInComparison, Period1Rows)
        /\ OnlyOnBoth(keywords_of(Period1Rows) \cap keywords_of(Period2Rows))

OwnValuesAsDeltas(new, period1) ==
    \A r \in new :
        /\ r.ImpressionChange = (IF r.Impressions1 = NaN THEN 0 ELSE r.Impressions1)
        /\ r.ClickChange = (IF r.Clicks1 = NaN THEN 0 ELSE r.Clicks1)
        /\ ReportedAsIs(r, period1)
        /\ r.Impressions2 = NaN /\ r.Clicks2 = NaN /\ r.Position2 = NaN

\* C17 amended: a keyword that only the first period has gets its own
\* Impressions and Clicks as Impression Change and Click Change (the missing
\* value of the second period, or a missing value of its own, counts as 0),
\* its metrics are reported unchanged next to missing values for the second
\* period, and every row of the comparison has a numeric Impression Change
C17_NewKeywordDeltas ==
    pc = "compared" =>
        /\ OwnValuesAsDeltas(NewInComparison, Period1Rows)
        /\ \A r \in Range(comparison.rows) : r.ImpressionChange # NaN

\* a comparison with a keyword of the first period only, reported with its
\* impressions and clicks as changes
C17_Witness ==
    /\ pc = "compared"
    /\ \E r \in NewInComparison :
           /\ r.Impressions1 # NaN /\ r.Impressions1 > 0
           /\ r.ImpressionChange = r.Impressions1
           /\ r.Clicks1 # NaN /\ r.Clicks1 > 0
           /\ r.ClickChange = r.Clicks1

=============================================================================
